---- MODULE Spec2Model ----
(***************************************************************************)
(* Linear regression over a time-indexed series (timewise-analytics,       *)
(* src/main.rs).  Every operation of LinearRegression is a pure function   *)
(* of f64 values, so the model has two parts:                              *)
(*                                                                         *)
(*  1. a binary floating-point arithmetic with round-to-nearest-even and   *)
(*     gradual underflow, the arithmetic of f64 with the significand       *)
(*     scaled down from 53 bits to Prec bits.  A finite value is the       *)
(*     integer k standing for k * 2^-Frac; it is representable when k has  *)
(*     at most Prec significant bits.  Overflow to infinity is not         *)
(*     modelled (the exponent is unbounded upwards).  The one division     *)
(*     whose divisor can be zero, that of calculate_mse over an empty      *)
(*     slice, returns a record that tells NaN from a number.  The two      *)
(*     zeros, which compare equal, are one value.                          *)
(*                                                                         *)
(*  2. the functions of main.rs, computed operation by operation in the    *)
(*     order the code computes them, and a state machine in which one      *)
(*     call is drawn by Init and carried out by the action of its          *)
(*     function.                                                           *)
(***************************************************************************)
EXTENDS Integers, Sequences, FiniteSets

VARIABLES
    op,            \* the function called: "fit", "forecast", "r_squared", "mse"
    data,          \* fit: the series; r_squared / mse: `actual`
    predicted,     \* r_squared / mse: `predicted`
    coefficients,  \* forecast: the LinearCoefficients argument
    periods,       \* forecast: the number of periods
    pc,            \* "call" before the function has run, "return" after
    ret            \* the value returned

vars == <<op, data, predicted, coefficients, periods, pc, ret>>

-----------------------------------------------------------------------------
(* Bounds of the model *)

\* significand bits of the floating-point format (53 for f64)
Prec == 10
\* longest series, and longest actual/predicted pair
MaxLen == 4
\* largest number of forecast periods
MaxPeriods == 3

-----------------------------------------------------------------------------
(* The floating-point format *)

\* number of fractional bits: the smallest positive value is 2^-Frac
Frac == Prec + 1

\* 1.0
One == 2 ^ Frac

\* f64::EPSILON, the gap between 1.0 and the next value: 2^-(Prec-1)
EPSILON == 2 ^ (Frac - Prec + 1)

\* the result of 0.0 / 0.0
NaN == [nan |-> TRUE]

\* a result that is the number k
Num(k) == [nan |-> FALSE, val |-> k]

Abs(k) == IF k < 0 THEN -k ELSE k

\* a finite value of the format: an integer with at most Prec significant bits
RECURSIVE Representable(_)
Representable(k) ==
    IF Abs(k) < 2 ^ Prec THEN TRUE
    ELSE IF k % 2 # 0 THEN FALSE
    ELSE Representable(k \div 2)

\* the exponent of the spacing of the format around a/d: the least j >= 0
\* with a/d < 2^(Prec+j)
RECURSIVE Quantum(_, _, _)
Quantum(a, d, j) ==
    IF a < (2 ^ (Prec + j)) * d THEN j ELSE Quantum(a, d, j + 1)

\* a/d rounded to the nearest integer, ties to the even one
RoundHalfEven(a, d) ==
    LET q == a \div d
        r == a % d
    IN  IF 2 * r < d THEN q
        ELSE IF 2 * r > d THEN q + 1
        ELSE IF q % 2 = 0 THEN q ELSE q + 1

\* the rational n/d (d > 0) rounded to the nearest value of the format
RoundQ(n, d) ==
    LET a == Abs(n)
        j == Quantum(a, d, 0)
        r == (2 ^ j) * RoundHalfEven(a, d * (2 ^ j))
    IN  IF n < 0 THEN -r ELSE r

\* a * b / d with the common powers of two cancelled first
RECURSIVE MulQ(_, _, _)
MulQ(a, b, d) ==
    IF d > 1 /\ a % 2 = 0 THEN MulQ(a \div 2, b, d \div 2)
    ELSE IF d > 1 /\ b % 2 = 0 THEN MulQ(a, b \div 2, d \div 2)
    ELSE RoundQ(a * b, d)

\* a * s / b (b > 0) with the common powers of two cancelled first
RECURSIVE DivQ(_, _, _)
DivQ(a, b, s) ==
    IF s > 1 /\ b % 2 = 0 THEN DivQ(a, b \div 2, s \div 2)
    ELSE RoundQ(a * s, b)

\* f64 addition, subtraction, multiplication and division
Fadd(a, b) == RoundQ(a + b, 1)

Fsub(a, b) == RoundQ(a - b, 1)

Fmul(a, b) == MulQ(a, b, One)

\* (the divisor is not zero)
Fdiv(a, b) ==
    IF b < 0 THEN DivQ(-a, -b, One) ELSE DivQ(a, b, One)

\* `i as f64`
IntToF(i) == RoundQ(i * One, 1)

\* Iterator::sum::<f64>(): a left fold of + from 0.0
RECURSIVE SumF(_)
SumF(s) ==
    IF s = <<>> THEN 0
    ELSE Fadd(SumF(SubSeq(s, 1, Len(s) - 1)), s[Len(s)])

Min(a, b) == IF a < b THEN a ELSE b

\* a.iter().zip(b.iter()): as long as the shorter of the two
ZipLen(a, b) == Min(Len(a), Len(b))

\* x.powi(2)
Sq(x) == Fmul(x, x)

SqDiff(yi, y_pred) == Sq(Fsub(yi, y_pred))

-----------------------------------------------------------------------------
(* LinearRegression *)

Ok(v) == [tag |-> "Ok", val |-> v]

Err(e) == [tag |-> "Err", err |-> e]

\* (0..data.len()).map(|i| i as f64).collect()
TimeIndex(n) == [i \in 1..n |-> IntToF(i - 1)]

\* Denominator with the factor n forgotten
Denominator_NoN(x) ==
    LET sum_x == SumF(x)
        sum_x2 == SumF([i \in 1..Len(x) |-> Fmul(x[i], x[i])])
    IN  Fsub(sum_x2, Fmul(sum_x, sum_x))

\* the denominator of the least-squares slope
Denominator(x) ==
    LET n == IntToF(Len(x))
        sum_x == SumF(x)
        sum_x2 == SumF([i \in 1..Len(x) |-> Fmul(x[i], x[i])])
    IN  Fsub(Fmul(n, sum_x2), Fmul(sum_x, sum_x))

\* calculate_coefficients with the factor n of the slope's numerator forgotten
calculate_coefficients_NoN(x, y) ==
    LET n == IntToF(Len(x))
        sum_x == SumF(x)
        sum_y == SumF(y)
        sum_xy == SumF([i \in 1..ZipLen(x, y) |-> Fmul(x[i], y[i])])
        denominator == Denominator(x)
    IN  IF Abs(denominator) < EPSILON THEN Err("InvalidInput")
        ELSE LET slope == Fdiv(Fsub(sum_xy, Fmul(sum_x, sum_y)), denominator)
                 intercept == Fdiv(Fsub(sum_y, Fmul(slope, sum_x)), n)
             IN  Ok([slope |-> slope, intercept |-> intercept])

\* calculate_coefficients with the intercept not divided by n
calculate_coefficients_NoMean(x, y) ==
    LET n == IntToF(Len(x))
        sum_x == SumF(x)
        sum_y == SumF(y)
        sum_xy == SumF([i \in 1..ZipLen(x, y) |-> Fmul(x[i], y[i])])
        denominator == Denominator(x)
    IN  IF Abs(denominator) < EPSILON THEN Err("InvalidInput")
        ELSE LET slope == Fdiv(Fsub(Fmul(n, sum_xy), Fmul(sum_x, sum_y)),
                               denominator)
                 intercept == Fsub(sum_y, Fmul(slope, sum_x))
             IN  Ok([slope |-> slope, intercept |-> intercept])

calculate_coefficients(x, y) ==
    LET n == IntToF(Len(x))
        sum_x == SumF(x)
        sum_y == SumF(y)
        sum_xy == SumF([i \in 1..ZipLen(x, y) |-> Fmul(x[i], y[i])])
        denominator == Denominator(x)
    IN  IF Abs(denominator) < EPSILON THEN Err("InvalidInput")
        ELSE LET slope == Fdiv(Fsub(Fmul(n, sum_xy), Fmul(sum_x, sum_y)),
                               denominator)
                 intercept == Fdiv(Fsub(sum_y, Fmul(slope, sum_x)), n)
             IN  Ok([slope |-> slope, intercept |-> intercept])

\* predict_range with the intercept forgotten
predict_range_NoIntercept(x, c) ==
    [i \in 1..Len(x) |-> Fmul(c.slope, x[i])]

predict_range(x, c) ==
    [i \in 1..Len(x) |-> Fadd(Fmul(c.slope, x[i]), c.intercept)]

\* forecast with the index running over 1..=periods
forecast_FromOne(c, n) ==
    [i \in 1..n |-> Fadd(Fmul(c.slope, IntToF(i)), c.intercept)]

forecast(c, n) ==
    [i \in 1..n |-> Fadd(Fmul(c.slope, IntToF(i - 1)), c.intercept)]

\* the sum of squares of `actual` about its mean (the mean of an empty
\* `actual` is 0.0 / 0.0 and is not used: the sum is over no element)
TotalSumSquares(actual) ==
    LET mean_actual == Fdiv(SumF(actual), IntToF(Len(actual)))
    IN  SumF([i \in 1..Len(actual) |-> Sq(Fsub(actual[i], mean_actual))])

\* the sum of squared differences of `actual` and `predicted`
ResidualSumSquares(actual, pred) ==
    SumF([i \in 1..ZipLen(actual, pred) |-> SqDiff(actual[i], pred[i])])

\* calculate_r_squared with the quotient added to 1.0
calculate_r_squared_Plus(actual, pred) ==
    LET total_sum_squares == TotalSumSquares(actual)
        residual_sum_squares == ResidualSumSquares(actual, pred)
    IN  IF Abs(total_sum_squares) < EPSILON THEN One
        ELSE Fadd(One, Fdiv(residual_sum_squares, total_sum_squares))

\* calculate_r_squared with the result clamped at 0.0
calculate_r_squared_Clamped(actual, pred) ==
    LET total_sum_squares == TotalSumSquares(actual)
        residual_sum_squares == ResidualSumSquares(actual, pred)
        r2 == Fsub(One, Fdiv(residual_sum_squares, total_sum_squares))
    IN  IF Abs(total_sum_squares) < EPSILON THEN One
        ELSE IF r2 < 0 THEN 0 ELSE r2

calculate_r_squared(actual, pred) ==
    LET total_sum_squares == TotalSumSquares(actual)
        residual_sum_squares == ResidualSumSquares(actual, pred)
    IN  IF Abs(total_sum_squares) < EPSILON THEN One
        ELSE Fsub(One, Fdiv(residual_sum_squares, total_sum_squares))

\* calculate_mse with the division by the length forgotten
calculate_mse_NoMean(actual, pred) ==
    IF Len(actual) = 0 THEN NaN
    ELSE Num(ResidualSumSquares(actual, pred))

\* the sum over an empty `actual` is 0.0 and so is its length: 0.0 / 0.0
calculate_mse(actual, pred) ==
    IF Len(actual) = 0 THEN NaN
    ELSE Num(Fdiv(ResidualSumSquares(actual, pred), IntToF(Len(actual))))

\* fit with the two length checks in the other order
fit_LengthCheckFirst(d) ==
    IF Len(d) < 2 THEN Err("InsufficientData")
    ELSE IF Len(d) = 0 THEN Err("EmptyData")
    ELSE LET x == TimeIndex(Len(d))
             c == calculate_coefficients(x, d)
         IN  IF c.tag = "Err" THEN c
             ELSE LET predictions == predict_range(x, c.val)
                  IN  Ok([coefficients |-> c.val,
                          r_squared |-> calculate_r_squared(d, predictions),
                          mse |-> calculate_mse(d, predictions).val,
                          predictions |-> predictions])

fit(d) ==
    IF Len(d) = 0 THEN Err("EmptyData")
    ELSE IF Len(d) < 2 THEN Err("InsufficientData")
    ELSE LET x == TimeIndex(Len(d))
             c == calculate_coefficients(x, d)
         IN  IF c.tag = "Err" THEN c
             ELSE LET predictions == predict_range(x, c.val)
                  IN  Ok([coefficients |-> c.val,
                          r_squared |-> calculate_r_squared(d, predictions),
                          mse |-> calculate_mse(d, predictions).val,
                          predictions |-> predictions])

-----------------------------------------------------------------------------
(* The calls *)

SeqsUpTo(S, n) == UNION {[1..m -> S] : m \in 0..n}

\* 0.7 (not a dyadic rational: it uses the whole significand)
SevenTenths == Fdiv(IntToF(7), IntToF(10))

\* 21.7 (large enough for the rounding of a sum of three to exceed EPSILON
\* when squared)
Big == Fdiv(IntToF(217), IntToF(10))

\* the values of the series given to fit
FitVals == {0, One, 2 * One, 3 * One, SevenTenths, Big}

\* the values of `actual` given to calculate_r_squared and calculate_mse
EvalVals == {0, 1, One \div 4, One, 2 * One}

\* the values of `predicted` when it is not a shift of `actual`
PredVals == {0, 3 * One}

\* the shifts k of predicted = actual + k
Shifts == {1, One, -One}

Shifted(a, k) == [i \in 1..Len(a) |-> a[i] + k]

\* the `predicted` sequences tried with `actual`: sequences of the same
\* length over PredVals, `actual` itself, and the exact shifts of `actual`
PredictedFor(a) ==
    [1..Len(a) -> PredVals] \cup {a}
    \cup {Shifted(a, k) : k \in {s \in Shifts :
                                   \A i \in 1..Len(a) : Representable(a[i] + s)}}

\* the coefficients given to forecast
CoefVals == {-One, 0, One, SevenTenths, 10 * One}

NoCoefficients == [slope |-> 0, intercept |-> 0]

None == [tag |-> "None"]

Init ==
    /\ pc = "call"
    /\ ret = None
    /\ \/ /\ op = "fit"
          /\ data \in SeqsUpTo(FitVals, MaxLen)
          /\ predicted = <<>>
          /\ coefficients = NoCoefficients
          /\ periods = 0
       \/ /\ op = "forecast"
          /\ data = <<>>
          /\ predicted = <<>>
          /\ coefficients \in [slope : CoefVals, intercept : CoefVals]
          /\ periods \in 0..MaxPeriods
       \/ /\ op \in {"r_squared", "mse"}
          /\ data \in SeqsUpTo(EvalVals, MaxLen)
          /\ predicted \in PredictedFor(data)
          /\ coefficients = NoCoefficients
          /\ periods = 0

Fit ==
    /\ pc = "call" /\ op = "fit"
    /\ ret' = fit(data)
    /\ pc' = "return"
    /\ UNCHANGED <<op, data, predicted, coefficients, periods>>

Forecast ==
    /\ pc = "call" /\ op = "forecast"
    /\ ret' = Ok(forecast(coefficients, periods))
    /\ pc' = "return"
    /\ UNCHANGED <<op, data, predicted, coefficients, periods>>

RSquared ==
    /\ pc = "call" /\ op = "r_squared"
    /\ ret' = Ok(calculate_r_squared(data, predicted))
    /\ pc' = "return"
    /\ UNCHANGED <<op, data, predicted, coefficients, periods>>

Mse ==
    /\ pc = "call" /\ op = "mse"
    /\ ret' = calculate_mse(data, predicted)
    /\ pc' = "return"
    /\ UNCHANGED <<op, data, predicted, coefficients, periods>>

Next == Fit \/ Forecast \/ RSquared \/ Mse

Spec == Init /\ [][Next]_vars

-----------------------------------------------------------------------------
(* The claims *)

Returned(f) == pc = "return" /\ op = f

\* slope * i + intercept, for the zero-based index i
LineAt(c, i) == Fadd(Fmul(c.slope, IntToF(i)), c.intercept)

\* C1: fit of an empty series fails with EmptyData and fit of a series of one
\* element fails with InsufficientData, whatever the element; the empty
\* series is never reported as InsufficientData, and neither call returns a
\* RegressionResult.
C1_ShortSeriesRejected ==
    Returned("fit") =>
        /\ Len(data) = 0 => ret = Err("EmptyData")
        /\ Len(data) = 1 => ret = Err("InsufficientData")
        /\ Len(data) < 2 => ret.tag = "Err"

C1_Witness ==
    /\ Returned("fit")
    /\ Len(data) = 1 /\ data[1] # 0
    /\ ret = Err("InsufficientData")

\* C4: for every series of length n >= 2 the least-squares denominator
\* n*sum(i^2) - (sum i)^2 computed over the index 0..n-1 is strictly positive
\* and not below EPSILON, so the guard of calculate_coefficients is not
\* taken: fit never fails with InvalidInput and returns a RegressionResult.
C4_DenominatorPositive ==
    (Returned("fit") /\ Len(data) >= 2) =>
        /\ Denominator(TimeIndex(Len(data))) > 0
        /\ Denominator(TimeIndex(Len(data))) >= EPSILON
        /\ ret.tag = "Ok"
        /\ ret # Err("InvalidInput")

C4_Witness ==
    /\ Returned("fit")
    /\ Len(data) = MaxLen
    /\ ret.tag = "Ok"

\* C5: a successful fit returns as many predictions as the series has
\* elements, and predictions[i] is slope * i + intercept of the returned
\* coefficients, in index order.
C5_PredictionsOnReturnedLine ==
    (Returned("fit") /\ ret.tag = "Ok") =>
        /\ Len(ret.val.predictions) = Len(data)
        /\ \A i \in 1..Len(data) :
              ret.val.predictions[i] = LineAt(ret.val.coefficients, i - 1)

C5_Witness ==
    /\ Returned("fit") /\ ret.tag = "Ok"
    /\ Len(ret.val.predictions) = MaxLen
    /\ ret.val.coefficients.slope # 0
    /\ ret.val.coefficients.intercept # 0

IsInt(k) == k % One = 0

Max(a, b) == IF a > b THEN a ELSE b

\* the series lies exactly on the line through its first two points
OnLine(d) == \A i \in 1..Len(d) : d[i] - d[1] = (i - 1) * (d[2] - d[1])

\* slope a and intercept b of that line
LineSlope(d) == d[2] - d[1]

LineIntercept(d) == d[1]

\* a and b are whole numbers and n^4 * max(|a|, |b|, 1) <= 2^(Prec+1): every
\* sum and product calculate_coefficients forms for the series a*i + b of
\* length n is then a whole number below 2^Prec, which no operation rounds
InExactRange(n, a, b) ==
    /\ IsInt(a) /\ IsInt(b)
    /\ n * n * n * n * Max(Max(Abs(a), Abs(b)) \div One, 1) <= 2 ^ (Prec + 1)

\* fit returned exactly the line a*i + b, with r_squared 1.0 and mse 0.0
PerfectFit(r, a, b) ==
    /\ r.tag = "Ok"
    /\ r.val.coefficients = [slope |-> a, intercept |-> b]
    /\ r.val.r_squared = One
    /\ r.val.mse = 0

C3_ConstantSeries ==
    (Returned("fit") /\ Len(data) >= 2
        /\ \A i \in 1..Len(data) : data[i] = data[1]) =>
        /\ ret.tag = "Ok"
        /\ ret.val.coefficients.slope = 0
        /\ ret.val.coefficients.intercept = data[1]
        /\ ret.val.r_squared = One

\* the series has two different elements
NonConstant(a) == \E i, j \in 1..Len(a) : a[i] # a[j]

\* p is a shifted by one k # 0: p[i] = a[i] + k for every i
IsShift(a, p) ==
    /\ Len(p) = Len(a) /\ Len(a) >= 1
    /\ p[1] # a[1]
    /\ \A i \in 1..Len(a) : p[i] - a[i] = p[1] - a[1]

\* C7 as claimed: for any non-constant actual and any k # 0, r_squared of
\* actual and predicted = actual + k is strictly less than 1.0.
C7_Original ==
    (Returned("r_squared") /\ NonConstant(data) /\ IsShift(data, predicted)) =>
        ret.val < One

\* C7 as amended: r_squared of a non-constant actual and its shift by k # 0
\* is at most 1.0; it is strictly less than 1.0 when total_sum_squares is at
\* least EPSILON and the quotient residual_sum_squares / total_sum_squares
\* is at least EPSILON, and it is exactly 1.0 when total_sum_squares is
\* below EPSILON.
C7_ShiftBelowOne ==
    (Returned("r_squared") /\ NonConstant(data) /\ IsShift(data, predicted)) =>
        LET tss == TotalSumSquares(data)
            rss == ResidualSumSquares(data, predicted)
        IN  /\ ret.val <= One
            /\ tss < EPSILON => ret.val = One
            /\ (tss >= EPSILON /\ Fdiv(rss, tss) >= EPSILON) => ret.val < One

C7_Witness ==
    /\ Returned("r_squared") /\ NonConstant(data) /\ IsShift(data, predicted)
    /\ TotalSumSquares(data) >= EPSILON
    /\ Fdiv(ResidualSumSquares(data, predicted), TotalSumSquares(data)) >= EPSILON
    /\ ret.val < One

\* the sum of a sequence of integers, exactly
RECURSIVE ExactSum(_)
ExactSum(s) ==
    IF s = <<>> THEN 0 ELSE ExactSum(SubSeq(s, 1, Len(s) - 1)) + s[Len(s)]

\* every sum of a prefix of s is a value of the format
PrefixSumsRepresentable(s) ==
    \A m \in 1..Len(s) : Representable(ExactSum(SubSeq(s, 1, m)))

\* the squared differences (a[i] - p[i])^2, exactly, in units of 2^-(2*Frac)
ExactSquares(a, p) == [i \in 1..Len(a) |-> (a[i] - p[i]) * (a[i] - p[i])]

\* no operation of calculate_mse(a, p) rounds: the differences, their
\* squares, the partial sums of the squares and the quotient by the length
\* are values of the format
MseIsExact(a, p) ==
    LET sq == ExactSquares(a, p)
    IN  /\ \A i \in 1..Len(a) :
              /\ Representable(a[i] - p[i])
              /\ sq[i] % One = 0
        /\ PrefixSumsRepresentable([i \in 1..Len(a) |-> sq[i] \div One])
        /\ ExactSum(sq) % (One * Len(a)) = 0
        /\ Representable(ExactSum(sq) \div (One * Len(a)))

\* r is the exact arithmetic mean of the squared differences
IsExactMean(r, a, p) ==
    /\ ~r.nan
    /\ r.val * Len(a) * One = ExactSum(ExactSquares(a, p))

\* C8 as claimed: mse(a, a) = 0.0 for any sequence a, and for sequences of
\* equal length mse is the exact arithmetic mean of the squared differences,
\* which is never negative.
C8_Original ==
    (Returned("mse") /\ Len(predicted) = Len(data)) =>
        /\ predicted = data => ret = Num(0)
        /\ IsExactMean(ret, data, predicted)
        /\ ret.val >= 0

\* C8 as amended: for non-empty sequences of equal length mse is a number
\* and never negative, mse(a, a) = 0.0, and mse is the exact arithmetic mean
\* of the squared differences when no operation of its computation rounds.
C8_MseOfNonEmpty ==
    (Returned("mse") /\ Len(predicted) = Len(data) /\ Len(data) >= 1) =>
        /\ ~ret.nan
        /\ ret.val >= 0
        /\ predicted = data => ret = Num(0)
        /\ MseIsExact(data, predicted) => IsExactMean(ret, data, predicted)

C8_Witness ==
    /\ Returned("mse") /\ Len(predicted) = Len(data) /\ Len(data) = MaxLen
    /\ MseIsExact(data, predicted)
    /\ IsExactMean(ret, data, predicted)
    /\ ret.val > 0

\* C9: over sequences of equal length r_squared is exactly 1.0 when the sum
\* of squares of actual about its mean is below EPSILON, whatever predicted
\* is; otherwise it is 1 - residual_sum_squares / total_sum_squares, not
\* clamped: it is negative when the residual sum exceeds the total sum.
C9_RSquaredPolicy ==
    (Returned("r_squared") /\ Len(predicted) = Len(data)) =>
        LET tss == TotalSumSquares(data)
            rss == ResidualSumSquares(data, predicted)
        IN  /\ tss < EPSILON => ret.val = One
            /\ tss >= EPSILON => ret.val = Fsub(One, Fdiv(rss, tss))
            /\ (tss >= EPSILON /\ rss > tss) => ret.val < 0

C9_Witness ==
    /\ Returned("r_squared") /\ Len(predicted) = Len(data)
    /\ ~IsShift(data, predicted)
    /\ TotalSumSquares(data) >= EPSILON
    /\ ResidualSumSquares(data, predicted) > TotalSumSquares(data)
    /\ ret.val < 0

\* y[i] - (slope * i + intercept), exactly, for the zero-based index i - 1
Residual(d, c, i) == d[i] - (c.slope * (i - 1) + c.intercept)

\* the exact sum of squared residuals of the line c over d is not above that
\* of the line alt: the sum of r_alt^2 - r_c^2 is not negative
SseNotAbove(d, c, alt) ==
    ExactSum([i \in 1..Len(d) |->
                (Residual(d, alt, i) - Residual(d, c, i))
                * (Residual(d, alt, i) + Residual(d, c, i))]) >= 0

\* the alternative pairs tried: the coefficients within two units in the
\* last place (of the smallest values) of c
Alternatives(c) ==
    {[slope |-> c.slope + ds, intercept |-> c.intercept + di] :
        ds \in -2..2, di \in -2..2}

\* the exact sums of calculate_coefficients over the index 0..n-1
IndexSum(n) == ((n - 1) * n) \div 2

IndexSquareSum(n) == ((n - 1) * n * (2 * n - 1)) \div 6

WeightedSeries(d) == [i \in 1..Len(d) |-> (i - 1) * d[i]]

\* the numerator n * sum_xy - sum_x * sum_y of the slope, exactly
ExactNumerator(d) ==
    Len(d) * ExactSum(WeightedSeries(d)) - IndexSum(Len(d)) * ExactSum(d)

\* the denominator n * sum_x2 - sum_x^2, exactly, as a whole number
ExactDenominator(n) == n * IndexSquareSum(n) - IndexSum(n) * IndexSum(n)

\* the least-squares slope and n times the least-squares intercept, when
\* the divisions leave no remainder
ExactSlope(d) == ExactNumerator(d) \div ExactDenominator(Len(d))

ExactInterceptTimesN(d) == ExactSum(d) - ExactSlope(d) * IndexSum(Len(d))

\* no operation of calculate_coefficients rounds on the series d: every
\* product, partial sum, difference and quotient is a value of the format
FitIsExact(d) ==
    LET n == Len(d)
    IN  /\ PrefixSumsRepresentable(d)
        /\ \A i \in 1..n : Representable((i - 1) * d[i])
        /\ PrefixSumsRepresentable(WeightedSeries(d))
        /\ Representable(n * IndexSquareSum(n) * One)
        /\ Representable(IndexSum(n) * IndexSum(n) * One)
        /\ Representable(n * ExactSum(WeightedSeries(d)))
        /\ Representable(IndexSum(n) * ExactSum(d))
        /\ Representable(ExactNumerator(d))
        /\ ExactNumerator(d) % ExactDenominator(n) = 0
        /\ Representable(ExactSlope(d))
        /\ Representable(ExactSlope(d) * IndexSum(n))
        /\ Representable(ExactInterceptTimesN(d))
        /\ ExactInterceptTimesN(d) % n = 0
        /\ Representable(ExactInterceptTimesN(d) \div n)

\* C10 as claimed: for every series of length >= 2 the coefficients fit
\* returns minimise the sum of squared residuals: no alternative pair
\* (slope', intercept') has a smaller sum, hence the returned mse is not
\* above the mse of any other line over the same index.
C10_Original ==
    (Returned("fit") /\ Len(data) >= 2 /\ ret.tag = "Ok") =>
        \A alt \in Alternatives(ret.val.coefficients) :
            /\ SseNotAbove(data, ret.val.coefficients, alt)
            /\ (Representable(alt.slope) /\ Representable(alt.intercept)) =>
                  ret.val.mse <=
                    calculate_mse(data,
                                  predict_range(TimeIndex(Len(data)), alt)).val

\* C10 as amended: for every series of length >= 2 on which no operation of
\* calculate_coefficients rounds, fit returns the exact least-squares slope
\* and intercept, and no alternative pair has a smaller sum of squared
\* residuals.
C10_LeastSquaresWhenExact ==
    (Returned("fit") /\ Len(data) >= 2 /\ FitIsExact(data)) =>
        /\ ret.tag = "Ok"
        /\ ret.val.coefficients.slope = ExactSlope(data)
        /\ ret.val.coefficients.intercept * Len(data) = ExactInterceptTimesN(data)
        /\ \A alt \in Alternatives(ret.val.coefficients) :
              SseNotAbove(data, ret.val.coefficients, alt)

C10_Witness ==
    /\ Returned("fit") /\ Len(data) = MaxLen /\ FitIsExact(data)
    /\ ~OnLine(data)
    /\ ret.tag = "Ok"
    /\ ret.val.coefficients.slope # 0
    /\ \A alt \in Alternatives(ret.val.coefficients) :
          SseNotAbove(data, ret.val.coefficients, alt)

====
